---- MODULE Spec2Model ----
(***************************************************************************)
(* Red Light / Green Light game server (src/server.js).                    *)
(*                                                                         *)
(* The server is a single-threaded Node process: every socket event and    *)
(* every timer callback runs to completion, so each handler is one atomic  *)
(* action.  Functions of the source are operators on a "world" record w    *)
(* holding the fields of the `game` object, the module-level               *)
(* progressInterval, and a few history fields; they compose as the source  *)
(* functions call one another.                                             *)
(***************************************************************************)
EXTENDS Integers, Sequences, FiniteSets, TLC

\* ---- bounds ------------------------------------------------------------
MaxSockets == 2      \* socket ids that ever connect
MaxRound == 2        \* startGame is not taken once round reaches this
MaxTime == 2         \* Date.now() readings are drawn from 1..MaxTime
progressToWin == 3   \* game.progressToWin, scaled down from 100
progressRate == 2    \* game.progressRate, scaled down from 2.5

\* ---- program constants ---------------------------------------------------
MaxNameLen == 15
CountdownFrom == 3
Null == 0

Sockets == 1..MaxSockets
Times == 1..MaxTime

\* Names are sequences of one-character strings.
LongName == [i \in 1..(MaxNameLen + 1) |-> "b"]
Names == { <<>>, <<" ">>, <<" ", "a", " ">>, LongName }

VARIABLES
  phase, light, round, eliminationPending,   \* fields of `game`
  players,          \* game.players: the Map as its insertion-ordered entries
  lightTimer,       \* the pending timeout behind game.lightTimer, or "none"
  graceTimer,       \* TRUE while the timeout behind game.graceTimer is pending
  countdownTimer,   \* TRUE while the interval behind game.countdownTimer runs
  count,            \* the `count` closure variable of that interval
  progressInterval, \* TRUE while the 100 ms progress interval runs
  orphans,          \* pending timers whose handle has been overwritten
  connected,        \* socket ids with an open connection
  closed,           \* socket ids whose connection has ended
  winner,           \* history: winner id of the last "gameOver" emit, or Null
  gameOverCount,    \* history: "gameOver" emits since the last start or reset
  sweepDone,        \* history: eliminateHolders has swept the current red light
  last,             \* history: the handler that ran last and its socket / id
  stale,            \* history: handles whose timer was armed before the last
                    \*   endGame / resetGame and is still pending
  firedStale,       \* history: the last handler was the callback of such a timer
  lateMutation,     \* history: the last handler changed phase, light or a
                    \*   player after its first gameState / playerState emit
  phonesOutdated    \* history: the last playerState emit of the last handler
                    \*   differs from the state the handler left

vars == << phase, light, players, round, lightTimer, graceTimer,
           countdownTimer, count, eliminationPending, progressInterval,
           orphans, connected, closed, winner, gameOverCount, sweepDone,
           last, stale, firedStale, lateMutation, phonesOutdated >>

\* The fields a handler can change, gathered as one record.
W == [ phase |-> phase, light |-> light, players |-> players,
       round |-> round, lightTimer |-> lightTimer,
       graceTimer |-> graceTimer, countdownTimer |-> countdownTimer,
       count |-> count, eliminationPending |-> eliminationPending,
       progressInterval |-> progressInterval, orphans |-> orphans,
       winner |-> winner, gameOverCount |-> gameOverCount,
       sweepDone |-> sweepDone, stale |-> stale, firedStale |-> FALSE,
       firstSnap |-> <<>>, phoneSnap |-> <<>> ]

\* the element of a one-element set; { e(x) : x \in {w} } computes w once
TheOne(S) == CHOOSE v \in S : TRUE

\* what a gameState emit (src/server.js:61-68) and the playerState emits
\* (src/server.js:70-80) are compared with
StateView(w) == [phase |-> w.phase, light |-> w.light, players |-> w.players]

PhoneView(w) ==
  [ phase |-> w.phase, light |-> w.light,
    players |-> [i \in DOMAIN w.players |->
                  [ id |-> w.players[i].id,
                    progress |-> w.players[i].progress,
                    alive |-> w.players[i].alive,
                    holding |-> w.players[i].holding ]] ]

Set(w, op, id) ==
  \E x \in {w} :
    /\ phase' = x.phase
    /\ light' = x.light
    /\ players' = x.players
    /\ round' = x.round
    /\ lightTimer' = x.lightTimer
    /\ graceTimer' = x.graceTimer
    /\ countdownTimer' = x.countdownTimer
    /\ count' = x.count
    /\ eliminationPending' = x.eliminationPending
    /\ progressInterval' = x.progressInterval
    /\ orphans' = x.orphans
    /\ winner' = x.winner
    /\ gameOverCount' = x.gameOverCount
    /\ sweepDone' = x.sweepDone
    /\ last' = [op |-> op, id |-> id]
    /\ stale' = x.stale
    /\ firedStale' = x.firedStale
    /\ lateMutation' = (x.firstSnap # <<>> /\ x.firstSnap[1] # StateView(x))
    /\ phonesOutdated' = (x.phoneSnap # <<>> /\ x.phoneSnap[1] # PhoneView(x))

\* ---- helpers -------------------------------------------------------------
Min(a, b) == IF a < b THEN a ELSE b

RemoveAt(s, i) == [j \in 1..(Len(s) - 1) |-> IF j < i THEN s[j] ELSE s[j + 1]]

\* String.prototype.trim on a sequence of characters
RECURSIVE trimStart(_)
trimStart(s) ==
  IF s # <<>> /\ Head(s) = " " THEN trimStart(Tail(s)) ELSE s

RECURSIVE trimEnd(_)
trimEnd(s) ==
  IF s # <<>> /\ s[Len(s)] = " " THEN trimEnd(SubSeq(s, 1, Len(s) - 1)) ELSE s

trim(s) == trimEnd(trimStart(s))

\* String.prototype.substring(0, n)
substring0(s, n) == SubSeq(s, 1, Min(Len(s), n))

createPlayer(id, name) ==
  [ id |-> id, name |-> substring0(name, MaxNameLen), progress |-> 0,
    alive |-> TRUE, holding |-> FALSE, eliminated |-> FALSE,
    finishedAt |-> Null ]

\* Map operations on the insertion-ordered sequence of players
Ids(ps) == { ps[i].id : i \in DOMAIN ps }

IndexOf(ps, id) == CHOOSE i \in DOMAIN ps : ps[i].id = id

MapSet(ps, id, p) ==
  IF id \in Ids(ps) THEN [ps EXCEPT ![IndexOf(ps, id)] = p]
  ELSE Append(ps, p)

MapDelete(ps, id) ==
  IF id \in Ids(ps) THEN RemoveAt(ps, IndexOf(ps, id)) ELSE ps

Player(ps, id) == ps[IndexOf(ps, id)]

IsAlive(p) == p.alive

getAlivePlayers(w) == SelectSeq(w.players, IsAlive)

\* game.lightTimer = setTimeout(...): a still-pending timer behind the old
\* handle keeps running without a handle.
SetLightTimer(w, kind) ==
  [w EXCEPT !.lightTimer = kind,
            !.stale = @ \ {"light"},
            !.orphans = IF w.lightTimer # "none"
                        THEN Append(@, [kind |-> w.lightTimer, count |-> 0,
                                        stale |-> "light" \in w.stale])
                        ELSE @]

SetGraceTimer(w) ==
  [w EXCEPT !.graceTimer = TRUE,
            !.stale = @ \ {"grace"},
            !.orphans = IF w.graceTimer
                        THEN Append(@, [kind |-> "eliminateHolders", count |-> 0,
                                        stale |-> "grace" \in w.stale])
                        ELSE @]

SetCountdownTimer(w, c) ==
  [w EXCEPT !.countdownTimer = TRUE, !.count = c,
            !.stale = @ \ {"countdown"},
            !.orphans = IF w.countdownTimer
                        THEN Append(@, [kind |-> "countdown", count |-> w.count,
                                        stale |-> "countdown" \in w.stale])
                        ELSE @]

\* the timers still pending when a match is ended or reset
MarkStale(w) ==
  TheOne({ [x EXCEPT
              !.stale = (IF x.lightTimer # "none" THEN {"light"} ELSE {})
                        \cup (IF x.graceTimer THEN {"grace"} ELSE {})
                        \cup (IF x.countdownTimer THEN {"countdown"} ELSE {})
                        \cup (IF x.progressInterval THEN {"progress"} ELSE {}),
              !.orphans = [i \in DOMAIN x.orphans |->
                            [x.orphans[i] EXCEPT !.stale = TRUE]]]
           : x \in {w} })

\* ---- broadcasts -----------------------------------------------------------------
broadcastGameState(w) ==
  TheOne({ [x EXCEPT !.firstSnap = IF @ = <<>> THEN <<StateView(x)>> ELSE @]
           : x \in {w} })

broadcastToPhones(w) ==
  TheOne({ [x EXCEPT !.firstSnap = IF @ = <<>> THEN <<StateView(x)>> ELSE @,
                     !.phoneSnap = <<PhoneView(x)>>]
           : x \in {w} })

broadcastAll(w) == broadcastToPhones(broadcastGameState(w))

\* ---- progress tracking -----------------------------------------------------
stopProgressTracking(w) ==
  [w EXCEPT !.progressInterval = FALSE, !.stale = @ \ {"progress"}]

startProgressTracking(w) ==
  [w EXCEPT !.progressInterval = TRUE, !.stale = @ \ {"progress"}]

\* ---- match end ---------------------------------------------------------------
endGameKeepLightTimer(w, win) ==
  broadcastToPhones(MarkStale(
    [w EXCEPT !.phase = "gameOver",
              !.graceTimer = FALSE,
              !.progressInterval = FALSE,
              !.light = "red",
              !.winner = win,
              !.gameOverCount = @ + 1]))

endGame(w, win) ==
  broadcastToPhones(MarkStale(
    [w EXCEPT !.phase = "gameOver",
              !.lightTimer = "none",
              !.graceTimer = FALSE,
              !.progressInterval = FALSE,
              !.light = "red",
              !.winner = win,
              !.gameOverCount = @ + 1]))

\* ---- light switching ---------------------------------------------------------
switchToGreen(w) ==
  IF w.phase # "playing" THEN w
  ELSE SetLightTimer(broadcastAll([w EXCEPT !.light = "green",
                                            !.eliminationPending = FALSE]),
                     "switchToRed")

switchToRedBroadcastFirst(w) ==
  IF w.phase # "playing" THEN w
  ELSE SetGraceTimer([broadcastAll(w) EXCEPT !.light = "red",
                                             !.eliminationPending = TRUE,
                                             !.sweepDone = FALSE])

switchToRed(w) ==
  IF w.phase # "playing" THEN w
  ELSE SetGraceTimer(broadcastAll([w EXCEPT !.light = "red",
                                            !.eliminationPending = TRUE,
                                            !.sweepDone = FALSE]))

sweepPlayer(p) ==
  IF p.alive /\ p.holding
  THEN [p EXCEPT !.alive = FALSE, !.eliminated = TRUE]
  ELSE p

resolveSweepNoSurvivorCheck(w) ==
  LET alive == getAlivePlayers(w)
  IN IF Len(alive) = 0 THEN endGame(w, Null)
     ELSE SetLightTimer(w, "switchToGreen")

resolveSweepNoWinner(w) ==
  LET alive == getAlivePlayers(w)
  IN IF Len(alive) <= 1 THEN endGame(w, Null)
     ELSE SetLightTimer(w, "switchToGreen")

resolveSweep(w) ==
  LET alive == getAlivePlayers(w)
  IN IF Len(alive) = 0 THEN endGame(w, Null)
     ELSE IF Len(alive) = 1 THEN endGame(w, alive[1].id)
     ELSE SetLightTimer(w, "switchToGreen")

eliminateHolders(w) ==
  IF w.phase # "playing" \/ w.light # "red" THEN w
  ELSE resolveSweep(broadcastAll(
         [w EXCEPT !.players = [i \in DOMAIN w.players |-> sweepPlayer(w.players[i])],
                   !.sweepDone = TRUE]))

\* ---- progress tick ---------------------------------------------------------
tickPlayerUnclamped(p, t) ==
  IF p.alive /\ p.holding /\ p.finishedAt = Null
  THEN LET np == p.progress + progressRate
       IN [p EXCEPT !.progress = np,
                    !.finishedAt = IF np >= progressToWin THEN t ELSE @]
  ELSE p

\* t is the value Date.now() returns if this player finishes
tickPlayer(p, t) ==
  IF p.alive /\ p.holding /\ p.finishedAt = Null
  THEN LET np == Min(progressToWin, p.progress + progressRate)
       IN [p EXCEPT !.progress = np,
                    !.finishedAt = IF np >= progressToWin THEN t ELSE @]
  ELSE p

\* Array.prototype.sort((a, b) => a.finishedAt - b.finishedAt), stable
RECURSIVE insertByFinishedAt(_, _)
insertByFinishedAt(sorted, p) ==
  IF sorted = <<>> THEN <<p>>
  ELSE IF sorted[Len(sorted)].finishedAt - p.finishedAt > 0
       THEN Append(insertByFinishedAt(SubSeq(sorted, 1, Len(sorted) - 1), p),
                   sorted[Len(sorted)])
       ELSE Append(sorted, p)

sortByFinishedAtUnsorted(s) == s

RECURSIVE sortByFinishedAt(_)
sortByFinishedAt(s) ==
  IF s = <<>> THEN <<>>
  ELSE insertByFinishedAt(sortByFinishedAt(SubSeq(s, 1, Len(s) - 1)), s[Len(s)])

HasFinished(p) == p.finishedAt # Null

RECURSIVE endGameForEach(_, _)
endGameForEach(w, fs) ==
  IF fs = <<>> THEN w
  ELSE endGameForEach(endGame(w, Head(fs).id), Tail(fs))

checkForWinnerEach(w) ==
  endGameForEach(w, sortByFinishedAt(SelectSeq(w.players, HasFinished)))

checkForWinner(w) ==
  LET finishers == SelectSeq(w.players, HasFinished)
  IN IF Len(finishers) > 0
     THEN endGame(w, sortByFinishedAt(finishers)[1].id)
     ELSE w

progressTick(w, ts) ==
  IF w.phase # "playing" \/ w.light # "green" THEN w
  ELSE LET ps == [i \in DOMAIN w.players |-> tickPlayer(w.players[i], ts[i])]
           someoneFinished ==
             \E i \in DOMAIN ps : /\ w.players[i].finishedAt = Null
                                  /\ ps[i].finishedAt # Null
           w1 == broadcastAll([w EXCEPT !.players = ps])
       IN IF someoneFinished THEN checkForWinner(w1) ELSE w1

\* ---- match control -------------------------------------------------------------
startGameNoSizeCheck(w) ==
  SetCountdownTimer(broadcastAll([w EXCEPT !.phase = "countdown",
                                           !.round = @ + 1,
                                           !.light = "red",
                                           !.gameOverCount = 0]),
                    CountdownFrom)

startGame(w) ==
  IF Len(w.players) < 1 THEN w
  ELSE SetCountdownTimer(broadcastAll([w EXCEPT !.phase = "countdown",
                                                !.round = @ + 1,
                                                !.light = "red",
                                                !.gameOverCount = 0]),
                         CountdownFrom)

\* the setInterval callback of startGame; c is `count` after count--
countdownStep(w, c) ==
  IF c > 0 THEN w
  ELSE switchToGreen(startProgressTracking(
         [w EXCEPT !.countdownTimer = FALSE, !.count = 0,
                   !.stale = @ \ {"countdown"},
                   !.phase = "playing"]))

resetGamePlayerKeepAlive(p) ==
  [p EXCEPT !.progress = 0, !.holding = FALSE,
            !.eliminated = FALSE, !.finishedAt = Null]

resetGamePlayer(p) ==
  [p EXCEPT !.progress = 0, !.alive = TRUE, !.holding = FALSE,
            !.eliminated = FALSE, !.finishedAt = Null]

resetGameKeepLightTimer(w) ==
  broadcastAll(MarkStale(
    [w EXCEPT !.phase = "lobby",
              !.light = "red",
              !.round = 0,
              !.graceTimer = FALSE,
              !.countdownTimer = FALSE,
              !.count = 0,
              !.progressInterval = FALSE,
              !.players = [i \in DOMAIN w.players |-> resetGamePlayer(w.players[i])],
              !.gameOverCount = 0]))

resetGameKeepCountdown(w) ==
  broadcastAll(MarkStale(
    [w EXCEPT !.phase = "lobby",
              !.light = "red",
              !.round = 0,
              !.lightTimer = "none",
              !.graceTimer = FALSE,
              !.progressInterval = FALSE,
              !.players = [i \in DOMAIN w.players |-> resetGamePlayer(w.players[i])],
              !.gameOverCount = 0]))

resetGame(w) ==
  broadcastAll(MarkStale(
    [w EXCEPT !.phase = "lobby",
              !.light = "red",
              !.round = 0,
              !.lightTimer = "none",
              !.graceTimer = FALSE,
              !.countdownTimer = FALSE,
              !.count = 0,
              !.progressInterval = FALSE,
              !.players = [i \in DOMAIN w.players |-> resetGamePlayer(w.players[i])],
              !.gameOverCount = 0]))

\* ---- socket handlers -----------------------------------------------------------
canJoinAnyPhase(w) == TRUE

canJoin(w) == w.phase = "lobby"

onJoinGame(w, s, name) ==
  IF ~canJoin(w) THEN w
  ELSE IF name = <<>> \/ Len(trim(name)) = 0 THEN w
  ELSE broadcastGameState(
         [w EXCEPT !.players = MapSet(@, s, createPlayer(s, trim(name)))])

immediateStrikeAnyRed(w) == w.light = "red"

immediateStrike(w) == w.light = "red" /\ ~w.eliminationPending

onHoldStart(w, s) ==
  IF s \notin Ids(w.players) THEN w
  ELSE LET i == IndexOf(w.players, s)
           p == w.players[i]
       IN IF ~p.alive \/ w.phase # "playing" THEN w
          ELSE IF immediateStrike(w)
               THEN broadcastAll(
                      [w EXCEPT !.players[i] =
                         [p EXCEPT !.holding = TRUE, !.alive = FALSE,
                                   !.eliminated = TRUE]])
               ELSE [w EXCEPT !.players[i] = [p EXCEPT !.holding = TRUE]]

onHoldEnd(w, s) ==
  IF s \notin Ids(w.players) THEN w
  ELSE [w EXCEPT !.players[IndexOf(w.players, s)].holding = FALSE]

startGamePlayer(p) ==
  [p EXCEPT !.progress = 0, !.alive = TRUE, !.holding = FALSE,
            !.eliminated = FALSE, !.finishedAt = Null]

canStartGameAnyPhase(w) == TRUE

canStartGame(w) == w.phase = "lobby" \/ w.phase = "gameOver"

onStartGame(w) ==
  IF canStartGame(w)
  THEN startGame([w EXCEPT !.players =
                    [i \in DOMAIN w.players |-> startGamePlayer(w.players[i])]])
  ELSE w

onKickPlayer(w, id) ==
  broadcastGameState([w EXCEPT !.players = MapDelete(@, id)])

onDisconnect(w, s) ==
  IF s \notin Ids(w.players) THEN w
  ELSE IF w.phase = "lobby"
       THEN broadcastAll([w EXCEPT !.players = MapDelete(@, s)])
       ELSE broadcastAll([w EXCEPT !.players[IndexOf(w.players, s)] =
                            [@ EXCEPT !.alive = FALSE, !.holding = FALSE]])

\* ---- timers ----------------------------------------------------------------------
\* 0 names the timer behind the handle, i > 0 the i-th handle-less timer
TimerSources(kind) ==
  (IF \/ kind \in {"switchToRed", "switchToGreen"} /\ lightTimer = kind
      \/ kind = "eliminateHolders" /\ graceTimer
      \/ kind = "countdown" /\ countdownTimer
   THEN {0} ELSE {})
  \cup { i \in DOMAIN orphans : orphans[i].kind = kind }

\* a timeout that fires is no longer pending
Expire(w, kind, src) ==
  IF src # 0
  THEN [w EXCEPT !.orphans = RemoveAt(@, src),
                 !.firedStale = w.orphans[src].stale]
  ELSE IF kind = "eliminateHolders"
  THEN [w EXCEPT !.graceTimer = FALSE,
                 !.firedStale = "grace" \in w.stale,
                 !.stale = @ \ {"grace"}]
  ELSE [w EXCEPT !.lightTimer = "none",
                 !.firedStale = "light" \in w.stale,
                 !.stale = @ \ {"light"}]

Init ==
  /\ phase = "lobby"
  /\ light = "red"
  /\ players = <<>>
  /\ round = 0
  /\ lightTimer = "none"
  /\ graceTimer = FALSE
  /\ countdownTimer = FALSE
  /\ count = 0
  /\ eliminationPending = FALSE
  /\ progressInterval = FALSE
  /\ orphans = <<>>
  /\ connected = {}
  /\ closed = {}
  /\ winner = Null
  /\ gameOverCount = 0
  /\ sweepDone = FALSE
  /\ last = [op |-> "init", id |-> 0]
  /\ stale = {}
  /\ firedStale = FALSE
  /\ lateMutation = FALSE
  /\ phonesOutdated = FALSE

connection(s) ==
  /\ s \notin connected \cup closed
  /\ connected' = connected \cup {s}
  /\ closed' = closed
  /\ Set(W, "connection", s)

joinTV(s) ==
  /\ s \in connected
  /\ Set(broadcastGameState(W), "joinTV", s)
  /\ UNCHANGED <<connected, closed>>

joinGame(s) ==
  /\ s \in connected
  /\ \E name \in Names : Set(onJoinGame(W, s, name), "joinGame", s)
  /\ UNCHANGED <<connected, closed>>

holdStart(s) ==
  /\ s \in connected
  /\ Set(onHoldStart(W, s), "holdStart", s)
  /\ UNCHANGED <<connected, closed>>

holdEnd(s) ==
  /\ s \in connected
  /\ Set(onHoldEnd(W, s), "holdEnd", s)
  /\ UNCHANGED <<connected, closed>>

\* startGame / resetGame / kickPlayer are accepted from any client (the TV);
\* the sender plays no part in the handler.
startGameEvent ==
  /\ onStartGame(W).round <= MaxRound
  /\ Set(onStartGame(W), "startGame", 0)
  /\ UNCHANGED <<connected, closed>>

resetGameEvent ==
  /\ Set(resetGame(W), "resetGame", 0)
  /\ UNCHANGED <<connected, closed>>

kickPlayer(id) ==
  /\ Set(onKickPlayer(W, id), "kickPlayer", id)
  /\ UNCHANGED <<connected, closed>>

disconnect(s) ==
  /\ s \in connected
  /\ connected' = connected \ {s}
  /\ closed' = closed \cup {s}
  /\ Set(onDisconnect(W, s), "disconnect", s)

countdownFire ==
  /\ \E src \in TimerSources("countdown") :
       LET c == (IF src = 0 THEN count ELSE orphans[src].count) - 1
           w0 == IF src = 0
                 THEN [W EXCEPT !.count = c,
                                !.firedStale = "countdown" \in stale]
                 ELSE [W EXCEPT !.orphans[src].count = IF c > 0 THEN c ELSE 0,
                                !.firedStale = orphans[src].stale]
       IN Set(countdownStep(w0, c), "countdown", 0)
  /\ UNCHANGED <<connected, closed>>

switchToRedFire ==
  /\ \E src \in TimerSources("switchToRed") :
       Set(switchToRed(Expire(W, "switchToRed", src)), "switchToRed", 0)
  /\ UNCHANGED <<connected, closed>>

switchToGreenFire ==
  /\ \E src \in TimerSources("switchToGreen") :
       Set(switchToGreen(Expire(W, "switchToGreen", src)), "switchToGreen", 0)
  /\ UNCHANGED <<connected, closed>>

eliminateHoldersFire ==
  /\ \E src \in TimerSources("eliminateHolders") :
       Set(eliminateHolders(Expire(W, "eliminateHolders", src)),
           "eliminateHolders", 0)
  /\ UNCHANGED <<connected, closed>>

\* ts[i] is what Date.now() returns for the i-th player; the wall clock gives
\* no ordering between two readings, so each is drawn independently.
progressFire ==
  /\ progressInterval
  /\ \E ts \in [DOMAIN players -> Times] :
       Set(progressTick([W EXCEPT !.firedStale = "progress" \in stale], ts),
           "progress", 0)
  /\ UNCHANGED <<connected, closed>>

Next ==
  \/ \E s \in Sockets : connection(s)
  \/ \E s \in Sockets : joinTV(s)
  \/ \E s \in Sockets : joinGame(s)
  \/ \E s \in Sockets : holdStart(s)
  \/ \E s \in Sockets : holdEnd(s)
  \/ startGameEvent
  \/ resetGameEvent
  \/ \E id \in Sockets : kickPlayer(id)
  \/ \E s \in Sockets : disconnect(s)
  \/ countdownFire
  \/ switchToRedFire
  \/ switchToGreenFire
  \/ eliminateHoldersFire
  \/ progressFire

Spec == Init /\ [][Next]_vars

\* Node fires every timeout that stays armed: an armed switchToRed, grace or
\* switchToGreen timeout runs unless endGame / resetGame clears it first.
FairSpec ==
  /\ Spec
  /\ WF_vars(switchToRedFire)
  /\ WF_vars(eliminateHoldersFire)
  /\ WF_vars(switchToGreenFire)

\* ---- the two-player duel ------------------------------------------------------
\* Every match is played by exactly two players who stay connected and
\* registered; once phase = playing the first registered player starts to
\* hold before any timer fires and never releases, and the second never holds.
TimerOps == {"countdown", "switchToRed", "switchToGreen", "eliminateHolders",
             "progress"}

DuelStep ==
  /\ last'.op = "startGame" => Len(players) = 2
  /\ last'.op \in {"disconnect", "kickPlayer"} => phase = "lobby"
  /\ phase = "playing" =>
       /\ last'.op # "holdEnd"
       /\ last'.op = "holdStart" => last'.id = players[1].id
       /\ last'.op \in TimerOps => players[1].holding

NextDuel == Next /\ DuelStep

SpecDuel == Init /\ [][NextDuel]_vars

TypeOK ==
  /\ phase \in {"lobby", "countdown", "playing", "gameOver"}
  /\ light \in {"red", "green"}
  /\ round \in 0..MaxRound
  /\ lightTimer \in {"none", "switchToRed", "switchToGreen"}
  /\ count \in 0..CountdownFrom
  /\ \A i \in DOMAIN players :
       /\ players[i].progress \in 0..progressToWin
       /\ players[i].finishedAt \in Times \cup {Null}
  /\ Cardinality(Ids(players)) = Len(players)

NoOrphans == orphans = <<>>

\* ---- claims ------------------------------------------------------------------
Present == Ids(players) \cap Ids(players')

AliveCount(ps) == Cardinality({ i \in DOMAIN ps : ps[i].alive })

PendingOfKind(kind) ==
  Cardinality(TimerSources(kind))

\* C1: a holdStart from an alive player while phase = playing, light = red
\* and the grace-period sweep of this red light has already run sets that
\* player's alive to false within the same handler.
C1_StrikeAfterGrace ==
  [][\A s \in Ids(players) :
       ( /\ phase = "playing" /\ light = "red" /\ sweepDone
         /\ Player(players, s).alive
         /\ last' = [op |-> "holdStart", id |-> s] )
       => ( s \in Ids(players') /\ ~Player(players', s).alive )]_vars

\* C2: a holdStart handled between switchToRed and the grace-period sweep
\* changes no player's alive flag; the sweep kills only players that are
\* holding when it runs and leaves alive every player that is not holding.
C2_GraceWindowHold ==
  [][ /\ ( /\ phase = "playing" /\ light = "red" /\ graceTimer /\ ~sweepDone
           /\ last'.op = "holdStart" )
         => ( /\ Len(players') = Len(players)
              /\ \A i \in DOMAIN players : players'[i].alive = players[i].alive )
      /\ ( phase = "playing" /\ last'.op = "eliminateHolders" )
         => ( /\ Len(players') = Len(players)
              /\ \A i \in DOMAIN players :
                   /\ (players[i].alive /\ ~players[i].holding) => players'[i].alive
                   /\ (players[i].alive /\ ~players'[i].alive) => players[i].holding )
    ]_vars

C2_Witness ==
  \E s \in Ids(players) :
    /\ last = [op |-> "holdStart", id |-> s]
    /\ phase = "playing" /\ light = "red" /\ graceTimer /\ ~sweepDone
    /\ Player(players, s).alive /\ Player(players, s).holding

\* C3: a sweep that runs in phase playing marks the alive holders dead and
\* then: no player alive -> gameOver with no winner; exactly one alive ->
\* gameOver with that player as winner; two or more alive -> still playing
\* with exactly one switchToGreen timer pending.
C3_SweepResolution ==
  [][ ( phase = "playing" /\ last'.op = "eliminateHolders" )
      => /\ Len(players') = Len(players)
         /\ \A i \in DOMAIN players :
              (players[i].alive /\ players[i].holding) => ~players'[i].alive
         /\ AliveCount(players') = 0
              => /\ phase' = "gameOver" /\ winner' = Null
                 /\ gameOverCount' = gameOverCount + 1
         /\ AliveCount(players') = 1
              => /\ phase' = "gameOver"
                 /\ gameOverCount' = gameOverCount + 1
                 /\ \E i \in DOMAIN players' :
                      players'[i].alive /\ winner' = players'[i].id
         /\ AliveCount(players') >= 2
              => /\ phase' = "playing"
                 /\ gameOverCount' = gameOverCount
                 /\ PendingOfKind("switchToGreen")' = 1
                 /\ PendingOfKind("switchToRed")' = 0
                 /\ PendingOfKind("eliminateHolders")' = 0
    ]_vars

C3_Witness ==
  /\ last.op = "eliminateHolders"
  /\ Len(players) = 1
  /\ ~players[1].alive /\ players[1].eliminated /\ players[1].holding
  /\ phase = "gameOver" /\ winner = Null /\ gameOverCount = 1

\* C4: a progress tick in which a player reaches progressToWin ends the match
\* in that tick, and the winner is the first player in registry order among
\* those with the smallest non-null finishedAt.
C4_EarliestFinisherWins ==
  [][ ( /\ last'.op = "progress"
        /\ Len(players') = Len(players)
        /\ \E i \in DOMAIN players :
             players[i].finishedAt = Null /\ players'[i].finishedAt # Null )
      => LET F == { i \in DOMAIN players' : players'[i].finishedAt # Null }
             E == { i \in F : \A j \in F :
                      players'[i].finishedAt <= players'[j].finishedAt }
             first == CHOOSE i \in E : \A j \in E : i <= j
         IN /\ phase' = "gameOver"
            /\ gameOverCount' = gameOverCount + 1
            /\ winner' = players'[first].id
    ]_vars

C4_Witness ==
  /\ last.op = "progress"
  /\ phase = "gameOver"
  /\ Len(players) = 2
  /\ players[1].finishedAt # Null
  /\ players[2].finishedAt = players[1].finishedAt
  /\ winner = players[1].id

\* C5: between a successful startGame and the next startGame or resetGame the
\* gameOver announcement is made at most once, and none has been made while
\* the match is in countdown or playing.
C5_SingleGameOver ==
  /\ gameOverCount <= 1
  /\ phase \in {"countdown", "playing"} => gameOverCount = 0
  /\ phase = "gameOver" => gameOverCount = 1

C5_Witness ==
  /\ phase = "gameOver"
  /\ gameOverCount = 1
  /\ round = 2
  /\ last.op \notin {"progress", "eliminateHolders"}

\* C6: every player's progress stays within 0..progressToWin; it decreases
\* only in resetGame or a successful startGame, and it increases only in a
\* progress tick taken while phase = playing and light = green, for a player
\* that is alive, holding and not finished.
C6_ProgressMonotone ==
  [][\A s \in Present :
       LET p == Player(players, s)
           q == Player(players', s)
       IN /\ q.progress \in 0..progressToWin
          /\ q.progress < p.progress
               => \/ last'.op = "resetGame"
                  \/ /\ last'.op = "startGame"
                     /\ phase' = "countdown" /\ round' = round + 1
          /\ q.progress > p.progress
               => /\ last'.op = "progress"
                  /\ phase = "playing" /\ light = "green"
                  /\ p.alive /\ p.holding /\ p.finishedAt = Null
    ]_vars

C6_Witness ==
  /\ last.op = "progress"
  /\ \E i \in DOMAIN players :
       players[i].progress = progressToWin /\ players[i].finishedAt # Null
  /\ \E i \in DOMAIN players :
       players[i].progress > 0 /\ players[i].progress < progressToWin

\* C7: within a match a player's alive flag never goes from false to true:
\* only resetGame or a successful startGame sets it back.
C7_AliveNeverRevived ==
  [][\A s \in Present :
       ( ~Player(players, s).alive /\ Player(players', s).alive )
       => \/ last'.op = "resetGame"
          \/ /\ last'.op = "startGame"
             /\ phase \in {"lobby", "gameOver"}
             /\ phase' = "countdown" /\ round' = round + 1
    ]_vars

C7_Witness ==
  \E s \in Ids(players) :
    /\ last = [op |-> "holdStart", id |-> s]
    /\ phase = "gameOver"
    /\ ~Player(players, s).alive
    /\ Player(players, s).eliminated

\* C8: the phase starts as lobby and changes only lobby -> countdown and
\* gameOver -> countdown (startGame), countdown -> playing (the countdown
\* reaching zero), playing -> gameOver (a sweep or a progress tick ending the
\* match) and any phase -> lobby (resetGame).
C8_PhaseEdges ==
  /\ phase = "lobby"
  /\ [][ phase' # phase
         => \/ /\ phase \in {"lobby", "gameOver"} /\ phase' = "countdown"
               /\ last'.op = "startGame"
            \/ /\ phase = "countdown" /\ phase' = "playing"
               /\ last'.op = "countdown" /\ count = 1
            \/ /\ phase = "playing" /\ phase' = "gameOver"
               /\ last'.op \in {"eliminateHolders", "progress"}
            \/ /\ phase' = "lobby"
               /\ last'.op = "resetGame"
       ]_vars

C8_Witness ==
  /\ phase = "countdown"
  /\ round = 2
  /\ last.op = "startGame"

\* C9: a startGame request in phase countdown or playing, or with no player
\* registered, changes nothing; any other startGame request increments round
\* by one and sets phase = countdown and light = red.
C9_StartGame ==
  [][ last'.op = "startGame"
      => IF phase \in {"countdown", "playing"} \/ Len(players) = 0
         THEN UNCHANGED << phase, light, players, round, lightTimer,
                           graceTimer, countdownTimer, count,
                           eliminationPending, progressInterval, orphans >>
         ELSE /\ round' = round + 1
              /\ phase' = "countdown"
              /\ light' = "red"
    ]_vars

C9_Witness ==
  /\ last.op = "startGame"
  /\ phase = "gameOver"
  /\ Len(players) = 0

\* C10: in phase gameOver the light is red and no light-flip timer, no
\* grace-period timer and no progress tick is pending; in phase lobby the
\* same holds and no countdown timer is pending either.
C10_QuiescentTimers ==
  /\ phase \in {"gameOver", "lobby"}
       => /\ light = "red"
          /\ PendingOfKind("switchToRed") = 0
          /\ PendingOfKind("switchToGreen") = 0
          /\ PendingOfKind("eliminateHolders") = 0
          /\ ~progressInterval
  /\ phase = "lobby" => PendingOfKind("countdown") = 0

C10_Witness ==
  /\ phase = "gameOver"
  /\ last.op = "progress"
  /\ winner # Null
  /\ lightTimer = "none"

Pristine(p) ==
  p.progress = 0 /\ p.alive /\ ~p.holding /\ p.finishedAt = Null

CountdownRuns ==
  ( phase = "countdown" /\ last'.op = "countdown" )
  => /\ players' = players
     /\ IF count = 1 THEN phase' = "playing"
        ELSE phase' = "countdown" /\ count' = count - 1

\* C11 as stated: from any reachable state resetGame followed directly by
\* startGame leads to phase = countdown with the membership unchanged and
\* every player pristine, and the countdown then reaches playing without
\* touching a player.
C11_ResetThenStart ==
  [][ /\ last'.op = "resetGame"
         => /\ Ids(players') = Ids(players) /\ Len(players') = Len(players)
            /\ \A i \in DOMAIN players' : Pristine(players'[i])
      /\ ( last.op = "resetGame" /\ last'.op = "startGame" )
         => /\ phase' = "countdown"
            /\ players' = players
            /\ \A i \in DOMAIN players' : Pristine(players'[i])
      /\ CountdownRuns
    ]_vars

\* C11 amended: the same, provided the registry holds at least one player
\* when startGame is handled.
C11_ResetThenStartNonEmpty ==
  [][ /\ last'.op = "resetGame"
         => /\ Ids(players') = Ids(players) /\ Len(players') = Len(players)
            /\ \A i \in DOMAIN players' : Pristine(players'[i])
      /\ ( last.op = "resetGame" /\ last'.op = "startGame" /\ Len(players) >= 1 )
         => /\ phase' = "countdown"
            /\ players' = players
            /\ \A i \in DOMAIN players' : Pristine(players'[i])
      /\ CountdownRuns
    ]_vars

C11_Witness ==
  /\ last.op = "countdown"
  /\ phase = "playing"
  /\ round = 1
  /\ winner # Null
  /\ Len(players) = 2
  /\ \A i \in DOMAIN players : Pristine(players[i])

\* C13: a player with alive = false has holding = false, and a holdStart or
\* holdEnd from a player that is not alive changes nothing.
C13_DeadNotHolding ==
  [][ /\ \A i \in DOMAIN players' : ~players'[i].alive => ~players'[i].holding
      /\ \A s \in Ids(players) :
           ( /\ ~Player(players, s).alive
             /\ last'.op \in {"holdStart", "holdEnd"} /\ last'.id = s )
           => players' = players
    ]_vars

\* C14: a joinGame from a socket id that is already in the registry leaves
\* the registry unchanged.
C14_DuplicateJoinRejected ==
  [][ ( last'.op = "joinGame" /\ last'.id \in Ids(players) )
      => players' = players ]_vars

\* C15: while phase = playing, eliminationPending is true exactly when the
\* light is red and the grace-period sweep of this red light has not run.
C15_PendingIffGraceWindow ==
  phase = "playing" => ( eliminationPending <=> (light = "red" /\ ~sweepDone) )

\* C16: while phase = playing at most one of the switchToRed, grace-period
\* and switchToGreen timers is pending.
C16_OneLightTimer ==
  phase = "playing"
    => PendingOfKind("switchToRed") + PendingOfKind("switchToGreen")
         + PendingOfKind("eliminateHolders") <= 1

C16_Witness ==
  /\ phase = "playing"
  /\ round = 2
  /\ winner # Null
  /\ light = "red"
  /\ lightTimer = "switchToGreen"
  /\ last.op = "eliminateHolders"

\* C20: while phase = playing every alive player's connection is open.
C20_AliveImpliesConnected ==
  phase = "playing"
    => \A i \in DOMAIN players : players[i].alive => players[i].id \in connected

\* C12 as stated: in the duel the match ends only with the holder as winner,
\* by reaching progressToWin, and with the other player alive.
C12_HolderWins ==
  phase = "gameOver"
    => /\ winner = players[1].id
       /\ players[1].finishedAt # Null
       /\ players[1].progress = progressToWin
       /\ players[2].alive

\* C12 amended: in the duel the match ends with the other player alive and
\* untouched, and either the holder has reached progressToWin and is the
\* winner, or a sweep has eliminated the holder before that and the other
\* player is the winner.
C12_HolderWinsOrIsSwept ==
  phase = "gameOver"
    => /\ Len(players) = 2
       /\ players[2].alive /\ players[2].progress = 0
       /\ \/ /\ winner = players[1].id
             /\ players[1].alive
             /\ players[1].finishedAt # Null
             /\ players[1].progress = progressToWin
          \/ /\ winner = players[2].id
             /\ ~players[1].alive /\ players[1].eliminated
             /\ players[1].finishedAt = Null
             /\ players[1].progress < progressToWin

C12_Witness ==
  /\ phase = "gameOver"
  /\ last.op = "eliminateHolders"
  /\ winner = players[2].id
  /\ ~players[1].alive
  /\ players[1].progress > 0

\* C19: once phase = playing with at most one player alive, the timers alone
\* bring the match to gameOver (unless a resetGame takes it to lobby first).
C19_LoneSurvivorEnds ==
  ( phase = "playing" /\ AliveCount(players) <= 1 )
    ~> ( phase \in {"gameOver", "lobby"} )

C19_Witness ==
  /\ phase = "gameOver"
  /\ last.op = "eliminateHolders"
  /\ Len(players) = 2
  /\ \E i \in DOMAIN players :
       /\ players[i].id \in closed
       /\ ~players[i].alive /\ ~players[i].eliminated
  /\ \E i \in DOMAIN players :
       /\ players[i].alive /\ winner = players[i].id
       /\ players[i].progress = 0

\* C17: the callback of a timer that was armed before the last endGame or
\* resetGame changes neither phase, light, eliminationPending nor a player.
C17_StaleCallbackInert ==
  [][ firedStale'
      => UNCHANGED << phase, light, eliminationPending, players >> ]_vars

C17_Witness ==
  /\ phase = "playing"
  /\ round = 2
  /\ winner # Null
  /\ \E i \in DOMAIN players : players[i].id = winner /\ players[i].progress > 0
  /\ last.op = "progress"
  /\ ~firedStale /\ stale = {} /\ orphans = <<>>

\* C18 as stated: no handler changes phase, light or a player after it has
\* sent a gameState or playerState broadcast.
C18_NoMutationAfterBroadcast == ~lateMutation

\* C18 amended: a handler changes phase, light or a player after a broadcast
\* only when the progress tick or the sweep ends the match, and the last
\* playerState broadcast of every handler equals the state the handler leaves.
C18_OnlyMatchEndMutatesLate ==
  /\ lateMutation
       => /\ last.op \in {"progress", "eliminateHolders"}
          /\ phase = "gameOver"
          /\ gameOverCount = 1
  /\ ~phonesOutdated

C18_Witness ==
  /\ lateMutation
  /\ last.op = "progress"
  /\ phase = "gameOver"
  /\ winner # Null
  /\ ~phonesOutdated
====
